---- MODULE Spec2Model ----
(***************************************************************************)
(* Level-wise frequent itemset search of find_purchase_cooccurrences.py:   *)
(* count_size_one_subsets, count_subsets_of_size, prune_subsets and the    *)
(* loop of __main__ that drives them over one list of purchases.           *)
(*                                                                         *)
(* A purchase is the list parse_purchase returns: distinct items in        *)
(* ascending order.  An itemset (a frozenset) is a set of items.  A dict   *)
(* is a function whose DOMAIN is its set of keys.  Purchase indices are    *)
(* the 0-based indices of the source; all_purchases[idx + 1] is the        *)
(* purchase with index idx.                                                *)
(***************************************************************************)
EXTENDS Integers, Sequences, FiniteSets, TLC

\* ---------------------------------------------------------------- bounds
MaxItem == 4
MaxPurchases == 3
MaxSigma == 2
MaxCombo == 3
\* the smaller runs of SmallSpec and FairSpec
SmallMaxItem == 3
SmallMaxPurchases == 2
LiveMaxPurchases == 1

Items == 1..MaxItem

VARIABLES
    all_purchases,      \* list(list(int)): the purchases the run works on
    SIGMA,              \* module global read by prune_subsets
    MAX_COMBO_SIZE,     \* module global read by count_subsets_of_size
    max_purchase_size,  \* line 294
    subsets_indices,    \* dict(int : dict(frozenset : list(int)))
    subset_size,        \* the size of the level being built
    todo,               \* keys of n_minus_one_indices the loop of line 133 has not visited
    pc                  \* position of the run in __main__

vars == <<all_purchases, SIGMA, MAX_COMBO_SIZE, max_purchase_size,
          subsets_indices, subset_size, todo, pc>>

\* ---------------------------------------------------------------- helpers
Range(s) == {s[j] : j \in 1..Len(s)}

Min(a, b) == IF a < b THEN a ELSE b

EmptyDict == [x \in {} |-> <<>>]

\* d[key] = value
Put(d, key, value) ==
    [x \in (DOMAIN d) \cup {key} |-> IF x = key THEN value ELSE d[x]]

\* the list of the elements of S in ascending order (list(set(..)).sort())
RECURSIVE SortedSeq(_)
SortedSeq(S) ==
    IF S = {} THEN <<>>
    ELSE LET m == CHOOSE x \in S : \A y \in S : x <= y
         IN  <<m>> \o SortedSeq(S \ {m})

\* every value parse_purchase can return over the items 1..n
PurchaseLines(n) == {SortedSeq(S) : S \in SUBSET (1..n)}

\* max([len(purchase) for purchase in all_purchases]), for a non-empty list
MaxLen(purchases) ==
    CHOOSE m \in {Len(purchases[j]) : j \in 1..Len(purchases)} :
        \A j \in 1..Len(purchases) : Len(purchases[j]) <= m

\* itertools.combinations(superset, combo_size), as frozensets
Combinations(superset, combo_size) ==
    {c \in SUBSET superset : Cardinality(c) = combo_size}

\* ---------------------------------------------------------------- count_size_one_subsets
\* the inner loop of lines 87-93 over the items of one purchase
RECURSIVE SizeOneItems(_, _, _, _)
SizeOneItems(index, purchase, j, purchase_idx) ==
    IF j > Len(purchase) THEN index
    ELSE LET item_key == {purchase[j]}
             old == IF item_key \in DOMAIN index THEN index[item_key] ELSE <<>>
         IN  SizeOneItems(Put(index, item_key, Append(old, purchase_idx)),
                          purchase, j + 1, purchase_idx)

\* the outer loop of lines 84-93 over range(len(all_purchases))
RECURSIVE SizeOnePurchases(_, _, _)
SizeOnePurchases(index, purchases, purchase_idx) ==
    IF purchase_idx >= Len(purchases) THEN index
    ELSE SizeOnePurchases(
             SizeOneItems(index, purchases[purchase_idx + 1], 1, purchase_idx),
             purchases, purchase_idx + 1)

count_size_one_subsets(purchases) ==
    Put(EmptyDict, 1, SizeOnePurchases(EmptyDict, purchases, 0))

\* ---------------------------------------------------------------- count_subsets_of_size
\* the subset check with its test inverted (a subset that is logged rejects)
SupersetPotentiallyGoodInverted(superset, size, table, combo) ==
    \A combo_size \in 2..(Min(combo, size) - 1) :
        \A sub_superset \in Combinations(superset, combo_size) :
            sub_superset \notin DOMAIN table[combo_size]

\* the subset check with range(2, max_combo_size + 1): the superset itself is checked
SupersetPotentiallyGoodInclusive(superset, size, table, combo) ==
    \A combo_size \in 2..Min(combo, size) :
        \A sub_superset \in Combinations(superset, combo_size) :
            sub_superset \in DOMAIN table[combo_size]

\* lines 180-197: range(2, min(MAX_COMBO_SIZE, subset_size)) excludes its upper end
SupersetPotentiallyGood(superset, size, table, combo) ==
    \A combo_size \in 2..(Min(combo, size) - 1) :
        \A sub_superset \in Combinations(superset, combo_size) :
            sub_superset \in DOMAIN table[combo_size]

\* the loop body without the test of line 161: an existing entry always appends
ItemStepNoMembershipTest(index, subset, purchase_idx, item, size, table, combo) ==
    IF item \in subset THEN index
    ELSE IF {item} \notin DOMAIN table[1] THEN index
    ELSE LET superset == subset \cup {item}
         IN  IF superset \in DOMAIN index
             THEN Put(index, superset, Append(index[superset], purchase_idx))
             ELSE IF SupersetPotentiallyGood(superset, size, table, combo)
                  THEN Put(index, superset, <<purchase_idx>>)
                  ELSE index

\* the loop body with the test of line 161 made on item instead of purchase_idx
ItemStepTestsItem(index, subset, purchase_idx, item, size, table, combo) ==
    IF item \in subset THEN index
    ELSE IF {item} \notin DOMAIN table[1] THEN index
    ELSE LET superset == subset \cup {item}
         IN  IF superset \in DOMAIN index
             THEN IF item \notin Range(index[superset])
                  THEN Put(index, superset, Append(index[superset], purchase_idx))
                  ELSE index
             ELSE IF SupersetPotentiallyGood(superset, size, table, combo)
                  THEN Put(index, superset, <<purchase_idx>>)
                  ELSE index

\* lines 142-202: the body of the loop over the items of current_purchase
ItemStep(index, subset, purchase_idx, item, size, table, combo) ==
    IF item \in subset THEN index
    ELSE IF {item} \notin DOMAIN table[1] THEN index
    ELSE LET superset == subset \cup {item}
         IN  IF superset \in DOMAIN index
             THEN IF purchase_idx \notin Range(index[superset])
                  THEN Put(index, superset, Append(index[superset], purchase_idx))
                  ELSE index
             ELSE IF SupersetPotentiallyGood(superset, size, table, combo)
                  THEN Put(index, superset, <<purchase_idx>>)
                  ELSE index

\* line 141: for item in current_purchase
RECURSIVE ItemLoop(_, _, _, _, _, _, _, _)
ItemLoop(index, subset, purchase_idx, purchase, j, size, table, combo) ==
    IF j > Len(purchase) THEN index
    ELSE ItemLoop(ItemStep(index, subset, purchase_idx, purchase[j], size, table, combo),
                  subset, purchase_idx, purchase, j + 1, size, table, combo)

\* the loop over purchase_indices stopping one entry short of the end of the list
RECURSIVE PurchaseLoopShort(_, _, _, _, _, _, _, _)
PurchaseLoopShort(index, subset, purchase_indices, p, purchases, size, table, combo) ==
    IF p >= Len(purchase_indices) THEN index
    ELSE PurchaseLoopShort(
             ItemLoop(index, subset, purchase_indices[p],
                      purchases[purchase_indices[p] + 1], 1, size, table, combo),
             subset, purchase_indices, p + 1, purchases, size, table, combo)

\* line 137: for purchase_idx in purchase_indices
RECURSIVE PurchaseLoop(_, _, _, _, _, _, _, _)
PurchaseLoop(index, subset, purchase_indices, p, purchases, size, table, combo) ==
    IF p > Len(purchase_indices) THEN index
    ELSE PurchaseLoop(
             ItemLoop(index, subset, purchase_indices[p],
                      purchases[purchase_indices[p] + 1], 1, size, table, combo),
             subset, purchase_indices, p + 1, purchases, size, table, combo)

\* one pass of the loop of line 133 for one key of n_minus_one_indices
SubsetStep(table, subset, size, purchases, combo) ==
    Put(table, size,
        PurchaseLoop(table[size], subset, table[size - 1][subset], 1,
                     purchases, size, table, combo))

\* ---------------------------------------------------------------- prune_subsets
\* size = max(subsets_indices.keys())
MaxKey(table) == CHOOSE k \in DOMAIN table : \A j \in DOMAIN table : j <= k

\* prune_subsets with <= for <: a list of exactly sigma entries is removed too
prune_subsets_le(table, sigma) ==
    LET size == MaxKey(table)
        kept == {subset \in DOMAIN table[size] : ~(Len(table[size][subset]) <= sigma)}
    IN  Put(table, size, [subset \in kept |-> table[size][subset]])

prune_subsets(table, sigma) ==
    LET size == MaxKey(table)
        kept == {subset \in DOMAIN table[size] : ~(Len(table[size][subset]) < sigma)}
    IN  Put(table, size, [subset \in kept |-> table[size][subset]])

\* ---------------------------------------------------------------- the run
\* The state before line 294.  all_purchases is any list of parsed purchases the
\* bounds allow, the empty list and empty purchases included.  SIGMA is the module
\* global of line 11 and MAX_COMBO_SIZE the module global set at line 315; nothing
\* in the source checks either, so the values 0 and 1 are among those a run can
\* be started with.
InitWith(items, purchases, sigmas, combos) ==
    /\ \E n \in 0..purchases : all_purchases \in [1..n -> PurchaseLines(items)]
    /\ SIGMA \in sigmas
    /\ MAX_COMBO_SIZE \in combos
    /\ max_purchase_size = 0
    /\ subsets_indices = EmptyDict
    /\ subset_size = 0
    /\ todo = {}
    /\ pc = "start"

Init == InitWith(MaxItem, MaxPurchases, 0..MaxSigma, 1..MaxCombo)

\* the five purchases of the example scenario: {1,2,3}, {1,2}, {1,2,4}, {1,2,3,4}, {3,4}
ExamplePurchases == <<SortedSeq({1, 2, 3}), SortedSeq({1, 2}), SortedSeq({1, 2, 4}),
                      SortedSeq({1, 2, 3, 4}), SortedSeq({3, 4})>>

\* the run of the example scenario, with its threshold of 3
ExampleInit ==
    /\ all_purchases = ExamplePurchases
    /\ SIGMA = 3
    /\ MAX_COMBO_SIZE \in 2..MaxCombo
    /\ max_purchase_size = 0
    /\ subsets_indices = EmptyDict
    /\ subset_size = 0
    /\ todo = {}
    /\ pc = "start"

\* the runs over fewer and shorter purchases, under a valid configuration, and
\* the run of the example scenario
SmallInit ==
    \/ InitWith(SmallMaxItem, SmallMaxPurchases, 1..MaxSigma, 2..MaxCombo)
    \/ ExampleInit

\* the runs over at most LiveMaxPurchases purchases, under a valid configuration
LiveInit == InitWith(SmallMaxItem, LiveMaxPurchases, 1..MaxSigma, 2..MaxCombo)

\* line 294; max() of an empty list raises ValueError
MaxPurchaseSize ==
    /\ pc = "start"
    /\ IF all_purchases = <<>>
       THEN /\ pc' = "error"
            /\ UNCHANGED max_purchase_size
       ELSE /\ pc' = "seed"
            /\ max_purchase_size' = MaxLen(all_purchases)
    /\ UNCHANGED <<all_purchases, SIGMA, MAX_COMBO_SIZE, subsets_indices, subset_size, todo>>

\* line 326
CountSizeOne ==
    /\ pc = "seed"
    /\ subsets_indices' = count_size_one_subsets(all_purchases)
    /\ subset_size' = 1
    /\ pc' = "prune"
    /\ UNCHANGED <<all_purchases, SIGMA, MAX_COMBO_SIZE, max_purchase_size, todo>>

\* lines 328 and 344
PruneSubsets ==
    /\ pc = "prune"
    /\ subsets_indices' = prune_subsets(subsets_indices, SIGMA)
    /\ pc' = "pruned"
    /\ UNCHANGED <<all_purchases, SIGMA, MAX_COMBO_SIZE, max_purchase_size, subset_size, todo>>

\* lines 347-352: n_added == 0 ends the loop; only the body of the loop tests it
BreakLoop ==
    /\ pc = "pruned"
    /\ subset_size >= 2
    /\ Cardinality(DOMAIN subsets_indices[subset_size]) = 0
    /\ pc' = "done"
    /\ UNCHANGED <<all_purchases, SIGMA, MAX_COMBO_SIZE, max_purchase_size,
                   subsets_indices, subset_size, todo>>

\* the loop header without its upper end: the sizes grow until a level is empty
NextSizeUnbounded ==
    /\ pc = "pruned"
    /\ subset_size = 1 \/ Cardinality(DOMAIN subsets_indices[subset_size]) # 0
    /\ subset_size' = subset_size + 1
    /\ pc' = "begin"
    /\ UNCHANGED <<all_purchases, SIGMA, MAX_COMBO_SIZE, max_purchase_size,
                   subsets_indices, todo>>

\* the loop header reached also when n_added is 0: the break of line 352 is lost
NextSizeAfterEmpty ==
    /\ pc = "pruned"
    /\ IF subset_size + 1 < max_purchase_size
       THEN /\ subset_size' = subset_size + 1
            /\ pc' = "begin"
       ELSE /\ pc' = "done"
            /\ UNCHANGED subset_size
    /\ UNCHANGED <<all_purchases, SIGMA, MAX_COMBO_SIZE, max_purchase_size,
                   subsets_indices, todo>>

\* line 334: for subset_size in range(2, max_purchase_size)
NextSize ==
    /\ pc = "pruned"
    /\ subset_size = 1 \/ Cardinality(DOMAIN subsets_indices[subset_size]) # 0
    /\ IF subset_size + 1 < max_purchase_size
       THEN /\ subset_size' = subset_size + 1
            /\ pc' = "begin"
       ELSE /\ pc' = "done"
            /\ UNCHANGED subset_size
    /\ UNCHANGED <<all_purchases, SIGMA, MAX_COMBO_SIZE, max_purchase_size,
                   subsets_indices, todo>>

\* lines 127-130
CountBegin ==
    /\ pc = "begin"
    /\ subsets_indices' = Put(subsets_indices, subset_size, EmptyDict)
    /\ todo' = DOMAIN subsets_indices[subset_size - 1]
    /\ pc' = "count"
    /\ UNCHANGED <<all_purchases, SIGMA, MAX_COMBO_SIZE, max_purchase_size, subset_size>>

\* lines 133-202: one key of n_minus_one_indices, in the order the dict yields them
CountSubset ==
    /\ pc = "count"
    /\ \E subset \in todo :
        /\ subsets_indices' = SubsetStep(subsets_indices, subset, subset_size,
                                         all_purchases, MAX_COMBO_SIZE)
        /\ todo' = todo \ {subset}
    /\ UNCHANGED <<all_purchases, SIGMA, MAX_COMBO_SIZE, max_purchase_size, subset_size, pc>>

\* line 204
CountReturn ==
    /\ pc = "count"
    /\ todo = {}
    /\ pc' = "prune"
    /\ UNCHANGED <<all_purchases, SIGMA, MAX_COMBO_SIZE, max_purchase_size,
                   subsets_indices, subset_size, todo>>

Next ==
    \/ MaxPurchaseSize
    \/ CountSizeOne
    \/ PruneSubsets
    \/ BreakLoop
    \/ NextSize
    \/ CountBegin
    \/ CountSubset
    \/ CountReturn

Spec == Init /\ [][Next]_vars

SmallSpec == SmallInit /\ [][Next]_vars

\* ---------------------------------------------------------------- reference notions
\* the purchase indices whose purchase contains every item of S, counted directly
Support(S) ==
    {idx \in 0..(Len(all_purchases) - 1) : S \subseteq Range(all_purchases[idx + 1])}

\* the sizes whose index prune_subsets has already been applied to
PrunedSizes ==
    {k \in DOMAIN subsets_indices : k < subset_size \/ pc \in {"pruned", "done"}}

Itemsets == (SUBSET Items) \ {{}}

\* the supersets the loops of lines 133-156 build from the key subset
Formed(subset, size) ==
    {subset \cup {item} :
        item \in {i \in Items :
            /\ i \notin subset
            /\ {i} \in DOMAIN subsets_indices[1]
            /\ \E idx \in Range(subsets_indices[size - 1][subset]) :
                   i \in Range(all_purchases[idx + 1])}}

\* the configurations the specification of the engine accepts
ValidConfig == SIGMA >= 1 /\ MAX_COMBO_SIZE >= 2

\* ---------------------------------------------------------------- C1
\* C1 (completeness): when the run has finished with SIGMA >= 1 (and a valid
\* MAX_COMBO_SIZE), every itemset
\* of size 1 .. max_purchase_size that at least SIGMA purchases contain is a key
\* of subsets_indices at its own size.
C1_Completeness ==
    (pc = "done" /\ ValidConfig) =>
        \A S \in Itemsets :
            (Cardinality(S) <= max_purchase_size /\ Cardinality(Support(S)) >= SIGMA)
                => /\ Cardinality(S) \in DOMAIN subsets_indices
                   /\ S \in DOMAIN subsets_indices[Cardinality(S)]

\* ---------------------------------------------------------------- C2
\* C2 (exact frequency): in every pruned index, the membership list of every
\* surviving itemset is as long as the number of purchases that contain the
\* itemset, and lists exactly the indices of those purchases.
C2_ExactFrequency ==
    \A k \in PrunedSizes :
        \A S \in DOMAIN subsets_indices[k] :
            /\ Len(subsets_indices[k][S]) = Cardinality(Support(S))
            /\ Range(subsets_indices[k][S]) = Support(S)

\* the example scenario after the prune of size 2: of the six pairs the level
\* built, {1, 2} alone survives, with the four purchases 0, 1, 2, 3
C2_Witness ==
    /\ all_purchases = ExamplePurchases
    /\ SIGMA = 3
    /\ pc = "pruned"
    /\ subset_size = 2
    /\ DOMAIN subsets_indices[1] = {{1}, {2}, {3}, {4}}
    /\ DOMAIN subsets_indices[2] = {{1, 2}}
    /\ subsets_indices[2][{1, 2}] = <<0, 1, 2, 3>>

\* ---------------------------------------------------------------- C3
\* C3 (anti-monotonicity): every itemset of a pruned index of size k > 1 has each
\* of its k subsets of size k-1 as a key of the pruned index of size k-1, with a
\* membership list at least as long as its own, whatever MAX_COMBO_SIZE is.
C3_AntiMonotone ==
    \A k \in PrunedSizes :
        k > 1 =>
            \A S \in DOMAIN subsets_indices[k] :
                \A x \in S :
                    /\ (S \ {x}) \in DOMAIN subsets_indices[k - 1]
                    /\ Len(subsets_indices[k - 1][S \ {x}]) >= Len(subsets_indices[k][S])

\* a pruned size-3 index with a survivor, built with no subset check at all
C3_Witness ==
    /\ pc = "pruned"
    /\ subset_size = 3
    /\ MAX_COMBO_SIZE <= 2
    /\ SIGMA >= 1
    /\ DOMAIN subsets_indices[3] # {}

\* ---------------------------------------------------------------- C4
\* the itemsets of size k that at least SIGMA purchases contain
FrequentSets(k) ==
    {S \in Itemsets : Cardinality(S) = k /\ Cardinality(Support(S)) >= SIGMA}

\* the last size the loop of line 334 builds, told from the purchases alone
LastSize ==
    IF max_purchase_size <= 2 THEN 1
    ELSE LET stops == {k \in 2..(max_purchase_size - 1) : FrequentSets(k) = {}}
         IN  IF stops = {} THEN max_purchase_size - 1
             ELSE CHOOSE k \in stops : \A j \in stops : k <= j

\* the table the purchases and SIGMA determine, with no reference to MAX_COMBO_SIZE
ReferenceTable ==
    [k \in 1..LastSize |-> [S \in FrequentSets(k) |-> SortedSeq(Support(S))]]

\* C4 (maxComboSize invariance): for SIGMA >= 1 and any MAX_COMBO_SIZE >= 2 the
\* finished run ends with the table that the purchases and SIGMA alone determine,
\* so two runs that differ only in MAX_COMBO_SIZE end with identical tables.
C4_ComboInvariance ==
    (pc = "done" /\ SIGMA >= 1 /\ MAX_COMBO_SIZE >= 2) =>
        subsets_indices = ReferenceTable

\* a finished run with MAX_COMBO_SIZE = 2 that built a size-3 candidate which
\* the subset check of MAX_COMBO_SIZE = 3 rejects
C4_Witness ==
    /\ pc = "done"
    /\ SIGMA >= 1
    /\ MAX_COMBO_SIZE = 2
    /\ 3 \in DOMAIN subsets_indices
    /\ \E S \in DOMAIN subsets_indices[2] :
           \E T \in Formed(S, 3) : ~SupersetPotentiallyGood(T, 3, subsets_indices, 3)

\* ---------------------------------------------------------------- C5
\* C5 (threshold boundary): prune_subsets removes from the index of the current
\* maximum size exactly the itemsets whose membership list is shorter than SIGMA
\* (a list of length SIGMA stays, one of length SIGMA - 1 goes), and changes
\* nothing else.
C5_ThresholdBoundary ==
    [][pc = "prune" =>
        /\ DOMAIN subsets_indices' = DOMAIN subsets_indices
        /\ \A k \in DOMAIN subsets_indices :
            IF k = subset_size
            THEN /\ DOMAIN subsets_indices'[k] =
                        {S \in DOMAIN subsets_indices[k] :
                            Len(subsets_indices[k][S]) >= SIGMA}
                 /\ \A S \in DOMAIN subsets_indices'[k] :
                        subsets_indices'[k][S] = subsets_indices[k][S]
            ELSE subsets_indices'[k] = subsets_indices[k]]_vars

\* after the prune of size 1: an item that exactly SIGMA purchases hold is kept
\* and an item that SIGMA - 1 purchases hold, counted by the level, is gone
C5_Witness ==
    /\ pc = "pruned"
    /\ subset_size = 1
    /\ SIGMA = 2
    /\ \E S \in DOMAIN subsets_indices[1] : Len(subsets_indices[1][S]) = SIGMA
    /\ \E S \in Itemsets :
        /\ Cardinality(S) = 1
        /\ Cardinality(Support(S)) = SIGMA - 1
        /\ S \notin DOMAIN subsets_indices[1]

\* ---------------------------------------------------------------- C6
\* the script is a single thread that executes its next statement until it ends
FairSpec == LiveInit /\ [][Next]_vars /\ WF_vars(Next)

Max(a, b) == IF a > b THEN a ELSE b

\* C6 (termination): a run over a non-empty list of purchases with SIGMA >= 1
\* eventually finishes, with an index of size 1 in the table and no index of a
\* size outside 1 .. max_purchase_size - 1.
C6_Termination ==
    (pc = "start" /\ all_purchases # <<>> /\ SIGMA >= 1)
        ~> (/\ pc = "done"
            /\ 1 \in DOMAIN subsets_indices
            /\ DOMAIN subsets_indices \subseteq 1..Max(1, max_purchase_size - 1))

\* one purchase of one item with SIGMA = 1: finished with the size-1 index alone
C6_Witness ==
    /\ pc = "done"
    /\ SIGMA = 1
    /\ Len(all_purchases) = 1
    /\ Len(all_purchases[1]) = 1
    /\ DOMAIN subsets_indices = {1}
    /\ DOMAIN subsets_indices[1] = {Range(all_purchases[1])}

\* ---------------------------------------------------------------- C7
\* C7 as stated (early stop, size 1 included): once the pruned index of any size
\* k is empty, the run is at the end of level k and builds no larger size.
C7_EarlyStopAnySize ==
    \A k \in PrunedSizes :
        (ValidConfig /\ DOMAIN subsets_indices[k] = {}) =>
            (pc \in {"pruned", "done"} /\ subset_size = k)

\* C7 (amended): once the pruned index of a size k >= 2 is empty, the run is at
\* the end of level k and builds no larger size; an empty pruned index of size 1
\* does not stop the loop.
C7_EarlyStop ==
    \A k \in PrunedSizes :
        (k >= 2 /\ DOMAIN subsets_indices[k] = {}) =>
            (pc \in {"pruned", "done"} /\ subset_size = k)

\* the run stopped on an empty size-2 index although size 3 was within range
C7_Witness ==
    /\ pc = "done"
    /\ subset_size = 2
    /\ DOMAIN subsets_indices[2] = {}
    /\ subset_size + 1 < max_purchase_size

\* ---------------------------------------------------------------- C8
\* C8 (degenerate input): with no purchase, or only empty purchases, the run
\* (under a valid configuration)
\* does not fail, builds no index of size 2 or more, and ends with an empty
\* index of size 1.
C8_DegenerateInput ==
    (ValidConfig /\ \A j \in 1..Len(all_purchases) : all_purchases[j] = <<>>) =>
        /\ pc # "error"
        /\ DOMAIN subsets_indices \subseteq {1}
        /\ pc = "done" => subsets_indices = Put(EmptyDict, 1, EmptyDict)

\* ---------------------------------------------------------------- C9
\* C9 (invalid configuration): with SIGMA < 1 or MAX_COMBO_SIZE < 2 the run
\* builds no level and does not finish with a table.
C9_InvalidConfigRejected ==
    (SIGMA < 1 \/ MAX_COMBO_SIZE < 2) =>
        (DOMAIN subsets_indices = {} /\ pc # "done")

\* ---------------------------------------------------------------- C10
\* C10 (bounded subset verification): one pass of count_subsets_of_size over a
\* key S of the pruned index of size k-1 creates entries only for supersets
\* S + {i} with i an item of a purchase of S's list, i not in S and {i} in the
\* pruned size-1 index; such a superset without an entry gets one, starting
\* with the first purchase of S's list that holds i, exactly when every subset
\* of it of every size 2 .. min(MAX_COMBO_SIZE, k) - 1 is a key of the index of
\* that size.
C10_BoundedVerification ==
    [][(pc = "count" /\ todo' # todo) =>
        \E S \in todo :
            LET k == subset_size
                old == subsets_indices[k]
                new == subsets_indices'[k]
                checked(T) ==
                    \A c \in 2..(k - 1) :
                        c < MAX_COMBO_SIZE =>
                            \A sub \in SUBSET T :
                                Cardinality(sub) = c => sub \in DOMAIN subsets_indices[c]
                holders(T) ==
                    {p \in 1..Len(subsets_indices[k - 1][S]) :
                        T \subseteq Range(all_purchases[subsets_indices[k - 1][S][p] + 1])}
            IN  /\ todo' = todo \ {S}
                /\ S \in DOMAIN subsets_indices[k - 1]
                /\ DOMAIN old \subseteq DOMAIN new
                /\ (DOMAIN new) \ (DOMAIN old) \subseteq Formed(S, k)
                /\ \A T \in Formed(S, k) \ DOMAIN old :
                    /\ T \in DOMAIN new <=> checked(T)
                    /\ T \in DOMAIN new =>
                        \E p \in holders(T) :
                            /\ \A q \in holders(T) : p <= q
                            /\ new[T][1] = subsets_indices[k - 1][S][p]]_vars

\* while size 3 is being built with MAX_COMBO_SIZE = 3, a visited key has formed
\* one superset that was rejected and another key one that was admitted
C10_Witness ==
    /\ pc = "count"
    /\ subset_size = 3
    /\ MAX_COMBO_SIZE = 3
    /\ \E S \in (DOMAIN subsets_indices[2]) \ todo :
        \E T \in Formed(S, 3) :
            /\ ~SupersetPotentiallyGood(T, 3, subsets_indices, MAX_COMBO_SIZE)
            /\ T \notin DOMAIN subsets_indices[3]
    /\ DOMAIN subsets_indices[3] # {}

\* ---------------------------------------------------------------- C11
\* no purchase index occurs twice in any list of the index
NoDuplicates(index) ==
    \A S \in DOMAIN index : Cardinality(Range(index[S])) = Len(index[S])

\* the index of the current size inside the pass over the key subset: after the
\* first p - 1 purchases of its list and the first j items of the p-th one
PartialIndex(subset, p, j) ==
    LET purchase_indices == subsets_indices[subset_size - 1][subset]
        before == PurchaseLoop(subsets_indices[subset_size], subset,
                               SubSeq(purchase_indices, 1, p - 1), 1, all_purchases,
                               subset_size, subsets_indices, MAX_COMBO_SIZE)
        purchase == all_purchases[purchase_indices[p] + 1]
    IN  ItemLoop(before, subset, purchase_indices[p], SubSeq(purchase, 1, j), 1,
                 subset_size, subsets_indices, MAX_COMBO_SIZE)

\* C11 (no duplicate memberships): in every state of the run - after
\* count_size_one_subsets, between and inside the passes of count_subsets_of_size
\* over the keys of the previous size, after every prune - every membership list
\* of every index holds each purchase index at most once, and every key of the
\* index of size k is one itemset of k items, however its items were put together.
C11_NoDuplicateMemberships ==
    /\ \A k \in DOMAIN subsets_indices :
        /\ NoDuplicates(subsets_indices[k])
        /\ \A S \in DOMAIN subsets_indices[k] : Cardinality(S) = k
    /\ pc = "count" =>
        \A subset \in todo :
            \A p \in 1..Len(subsets_indices[subset_size - 1][subset]) :
                \A j \in 0..Len(all_purchases[subsets_indices[subset_size - 1][subset][p] + 1]) :
                    NoDuplicates(PartialIndex(subset, p, j))

\* size 2 is being built: the passes over {x} and over {y} have both met the
\* pair {x, y} in one same purchase, and the pair is one key that lists it
C11_Witness ==
    /\ pc = "count"
    /\ subset_size = 2
    /\ \E x, y \in Items :
        /\ x # y
        /\ {x} \in (DOMAIN subsets_indices[1]) \ todo
        /\ {y} \in (DOMAIN subsets_indices[1]) \ todo
        /\ {x, y} \in DOMAIN subsets_indices[2]
        /\ \E idx \in Range(subsets_indices[2][{x, y}]) :
            /\ idx \in Range(subsets_indices[1][{x}])
            /\ idx \in Range(subsets_indices[1][{y}])
    /\ todo # {}

====
